---- MODULE Spec2Model ----
(***************************************************************************)
(* A model of the expression serialisers of rizalgowandy/jet:             *)
(*   - package jet: binary / prefix / postfix operator expressions, the   *)
(*     clause-role adapters of ExpressionInterfaceImpl and the dialect    *)
(*     override hook of binaryOperatorExpression.serialize;               *)
(*   - package sqlbuilder: conjunctExpression.SerializeSql;               *)
(*   - package postgres: the typed literal constructors.                  *)
(* Output buffers are sequences of written chunks; one chunk per           *)
(* WriteString / Write / WriteByte call of the code.                       *)
(***************************************************************************)
EXTENDS Integers, Sequences, FiniteSets, TLC

VARIABLES heap, out, fault, log, call, heapBefore,
          cheap, cbuf, cerr, ccall,
          lit

jetVars == <<heap, out, fault, log, call, heapBefore>>
conjVars == <<cheap, cbuf, cerr, ccall>>
litVars == <<lit>>
vars == <<heap, out, fault, log, call, heapBefore, cheap, cbuf, cerr, ccall, lit>>

(***************************************************************************)
(* Bounds of the model.                                                    *)
(***************************************************************************)
\* number of operator nodes built on top of the column references
MaxNodes == 2

\* the column references every tree is built from
Columns == <<"a", "b">>

\* a nil interface value / nil pointer
Nil == 0

(***************************************************************************)
(* package jet: the expression nodes.                                      *)
(***************************************************************************)
BinaryOperators == {"=", "+"}
PrefixOperators == {"NOT"}
PostfixOperators == {"IS NULL"}
StatementTypes == {"SELECT", "UPDATE"}
\* the statements that have a projection, a GROUP BY and an ORDER BY clause
ClauseStatementTypes == {"SELECT"}
Dialects == {"generic", "custom"}

\* SerializeOption noWrap
noWrap == "noWrap"

\* contains(options, noWrap)
contains(options, option) == option \in options

\* a column reference: the operands the operator nodes are built from
ColumnRef(id, name) ==
    [kind |-> "column", name |-> name, lhs |-> Nil, rhs |-> Nil,
     additionalParam |-> Nil, expression |-> Nil, operator |-> "", Parent |-> id]

\* the value newBinaryOperatorExpression returns, stored at address id
newBinaryOperatorExpression(id, lhs, rhs, operator, additionalParam) ==
    [kind |-> "binary", name |-> "", lhs |-> lhs, rhs |-> rhs,
     additionalParam |-> additionalParam, expression |-> Nil,
     operator |-> operator, Parent |-> id]

\* the value newPrefixOperatorExpression returns, stored at address id
newPrefixOperatorExpression(id, expression, operator) ==
    [kind |-> "prefix", name |-> "", lhs |-> Nil, rhs |-> Nil,
     additionalParam |-> Nil, expression |-> expression,
     operator |-> operator, Parent |-> id]

\* the value newPostfixOperatorExpression returns, stored at address id
newPostfixOperatorExpression(id, expression, operator) ==
    [kind |-> "postfix", name |-> "", lhs |-> Nil, rhs |-> Nil,
     additionalParam |-> Nil, expression |-> expression,
     operator |-> operator, Parent |-> id]

(***************************************************************************)
(* The SQLBuilder during one render: the buffer, the panic in flight (if   *)
(* any) and a record of the calls made into the dialect.                   *)
(***************************************************************************)
NoFault == [kind |-> "none", node |-> Nil, operator |-> "", msg |-> << >>, entry |-> << >>]

NewBuilder == [buf |-> << >>, fault |-> NoFault, log |-> << >>]

\* out.WriteString(s), executed by node `by` (0: code of the dialect);
\* nothing executes once a panic is unwinding the render
WriteString(st, by, s) ==
    IF st.fault.kind # "none" THEN st
    ELSE [st EXCEPT !.buf = Append(@, [s |-> s, by |-> by])]

\* panic(msg) raised by node id, whose serialize was entered with buffer entry
Panic(st, id, operator, msg, entry) ==
    IF st.fault.kind # "none" THEN st
    ELSE [st EXCEPT !.fault = [kind |-> "MissingOperand", node |-> id,
                               operator |-> operator, msg |-> msg, entry |-> entry]]

\* a call through a nil interface value
NilDeref(st) ==
    IF st.fault.kind # "none" THEN st
    ELSE [st EXCEPT !.fault = [kind |-> "NilDeref", node |-> Nil,
                               operator |-> "", msg |-> << >>, entry |-> st.buf]]

Record(st, entry) ==
    IF st.fault.kind # "none" THEN st
    ELSE [st EXCEPT !.log = Append(@, entry)]

\* the text of a buffer: its chunks without the writer
Text(buf) == [i \in 1..Len(buf) |-> buf[i].s]

(***************************************************************************)
(* The dialect: out.Dialect.OperatorSerializeOverride(operator).           *)
(***************************************************************************)
NoOverride == "nil"

OperatorSerializeOverride(dialect, operator) ==
    IF dialect = "custom" /\ operator = "=" THEN "EQ" ELSE NoOverride

RECURSIVE serialize(_, _, _, _, _, _)

\* the SerializerFunc the override returns for (lhs, rhs, additionalParam):
\* a function call in place of the infix operator
overrideFunc(h, lhs, rhs, additionalParam, statement, dialect, st, options) ==
    LET s1 == WriteString(st, 0, "EQ(")
        s2 == serialize(h, lhs, statement, dialect, s1, {})
        s3 == WriteString(s2, 0, ", ")
        s4 == serialize(h, rhs, statement, dialect, s3, {})
        s5 == IF additionalParam = Nil THEN s4
              ELSE serialize(h, additionalParam, statement, dialect,
                             WriteString(s4, 0, ", "), {})
    IN  WriteString(s5, 0, ")")

(***************************************************************************)
(* The serialize methods.  h is the heap, id the receiver, st the builder. *)
(***************************************************************************)
\* a column reference writes its name
columnSerialize(h, id, statement, dialect, st, options) ==
    WriteString(st, id, h[id].name)

\* an entry of the record of calls into the dialect made by node id
Event(ev, id, key, c, statement, options) ==
    [ev |-> ev, node |-> id, key |-> key, lhs |-> c.lhs, rhs |-> c.rhs,
     add |-> c.additionalParam, statement |-> statement, options |-> options]

\* variant: the check of rhs is forgotten
binaryMissingOperand_lhsOnly(c) ==
    IF c.lhs = Nil THEN "lhs" ELSE "none"

\* binaryOperatorExpression.serialize, the nil checks: which operand is missing
binaryMissingOperand(c) ==
    IF c.lhs = Nil THEN "lhs"
    ELSE IF c.rhs = Nil THEN "rhs"
    ELSE "none"

\* variant: the lookup ignores the node's operator
binaryOverrideLookup_fixedKey(dialect, c) ==
    OperatorSerializeOverride(dialect, "=")

\* binaryOperatorExpression.serialize, the lookup of the override
binaryOverrideLookup(dialect, c) ==
    OperatorSerializeOverride(dialect, c.operator)

\* variant: the node's options are not handed on to the override's function
binaryDelegate_dropOptions(h, id, statement, dialect, st, options) ==
    LET c == h[id]
        serializeOverride == OperatorSerializeOverride(dialect, c.operator)
        a == Record(st, Event("override", id, serializeOverride, c, statement, {}))
        b == Record(a, Event("func", id, serializeOverride, c, statement, {}))
    IN  overrideFunc(h, c.lhs, c.rhs, c.additionalParam, statement, dialect, b, {})

\* binaryOperatorExpression.serialize, the branch taken with an override
binaryDelegate(h, id, statement, dialect, st, options) ==
    LET c == h[id]
        serializeOverride == binaryOverrideLookup(dialect, c)
        a == Record(st, Event("override", id, serializeOverride, c, statement, {}))
        b == Record(a, Event("func", id, serializeOverride, c, statement, options))
    IN  overrideFunc(h, c.lhs, c.rhs, c.additionalParam, statement, dialect, b, options)

\* variant: the operands are rendered with the parent's options
binaryGeneric_passOptions(h, id, statement, dialect, st, options) ==
    LET c == h[id]
        a == serialize(h, c.lhs, statement, dialect, st, options)
        b == WriteString(a, id, c.operator)
    IN  serialize(h, c.rhs, statement, dialect, b, options)

\* binaryOperatorExpression.serialize, the branch taken without an override
binaryGeneric(h, id, statement, dialect, st, options) ==
    LET c == h[id]
        a == serialize(h, c.lhs, statement, dialect, st, {})
        b == WriteString(a, id, c.operator)
    IN  serialize(h, c.rhs, statement, dialect, b, {})

\* binaryOperatorExpression.serialize
binarySerialize(h, id, statement, dialect, st, options) ==
    LET c == h[id]
        missing == binaryMissingOperand(c)
        wrap == ~contains(options, noWrap)
    IN  IF missing # "none"
        THEN Panic(st, id, c.operator,
                   <<"jet: ", missing, " is nil for '", c.operator, "' operator">>,
                   st.buf)
        ELSE
        LET s1 == IF wrap THEN WriteString(st, id, "(") ELSE st
            s1l == Record(s1, Event("lookup", id, c.operator, c, statement, {}))
            s2 == IF binaryOverrideLookup(dialect, c) # NoOverride
                  THEN binaryDelegate(h, id, statement, dialect, s1l, options)
                  ELSE binaryGeneric(h, id, statement, dialect, s1l, options)
        IN  IF wrap THEN WriteString(s2, id, ")") ELSE s2

\* prefixExpression.serialize
prefixSerialize(h, id, statement, dialect, st, options) ==
    LET p == h[id]
        s1 == WriteString(st, id, "(")
        s2 == WriteString(s1, id, p.operator)
    IN  IF p.expression = Nil
        THEN Panic(s2, id, p.operator,
                   <<"jet: nil prefix expression in prefix operator ", p.operator>>,
                   st.buf)
        ELSE WriteString(serialize(h, p.expression, statement, dialect, s2, {}),
                         id, ")")

\* variant: the operator is written before the operand is checked
postfixSerialize_writeFirst(h, id, statement, dialect, st, options) ==
    LET p == h[id]
        s1 == WriteString(st, id, p.operator)
    IN  IF p.expression = Nil
        THEN Panic(s1, id, p.operator,
                   <<"jet: nil prefix expression in postfix operator ", p.operator>>,
                   st.buf)
        ELSE serialize(h, p.expression, statement, dialect, s1, {})

\* postfixOpExpression.serialize
postfixSerialize(h, id, statement, dialect, st, options) ==
    LET p == h[id]
    IN  IF p.expression = Nil
        THEN Panic(st, id, p.operator,
                   <<"jet: nil prefix expression in postfix operator ", p.operator>>,
                   st.buf)
        ELSE WriteString(serialize(h, p.expression, statement, dialect, st, {}),
                         id, p.operator)

\* x.serialize(statement, out, options...): dispatch on the dynamic type of x
serialize(h, id, statement, dialect, st, options) ==
    IF st.fault.kind # "none" THEN st
    ELSE IF id = Nil THEN NilDeref(st)
    ELSE CASE h[id].kind = "column"  -> columnSerialize(h, id, statement, dialect, st, options)
           [] h[id].kind = "binary"  -> binarySerialize(h, id, statement, dialect, st, options)
           [] h[id].kind = "prefix"  -> prefixSerialize(h, id, statement, dialect, st, options)
           [] h[id].kind = "postfix" -> postfixSerialize(h, id, statement, dialect, st, options)

\* variant: noWrap is not passed
serializeForGroupBy_wrap(h, id, statement, dialect, st) ==
    serialize(h, h[id].Parent, statement, dialect, st, {})

\* ExpressionInterfaceImpl.serializeForGroupBy
serializeForGroupBy(h, id, statement, dialect, st) ==
    serialize(h, h[id].Parent, statement, dialect, st, {noWrap})

\* ExpressionInterfaceImpl.serializeForProjection
serializeForProjection(h, id, statement, dialect, st) ==
    serialize(h, h[id].Parent, statement, dialect, st, {noWrap})

\* ExpressionInterfaceImpl.serializeForOrderBy
serializeForOrderBy(h, id, statement, dialect, st) ==
    serialize(h, h[id].Parent, statement, dialect, st, {noWrap})

(***************************************************************************)
(* package jet: the state machine.                                         *)
(***************************************************************************)
NoCall == [op |-> "none", root |-> Nil, statement |-> "", dialect |-> "",
           options |-> {}]

InitHeap == [i \in 1..Len(Columns) |-> ColumnRef(i, Columns[i])]

JetInit ==
    /\ heap = InitHeap
    /\ out = << >>
    /\ fault = NoFault
    /\ log = << >>
    /\ call = NoCall
    /\ heapBefore = InitHeap

\* the expression under construction is the one built last
Top == Len(heap)

\* an operand is absent, a column or the expression built so far
Operands == {Nil} \cup (1..Len(Columns)) \cup {Top}

\* the optional extra operand is passed with "=" only
AdditionalParams(operator) == IF operator = "=" THEN {Nil, 1} ELSE {Nil}

\* no render is in progress: the builder of the last render was discarded
Idle == call = NoCall

CanBuild == Idle /\ Len(heap) < Len(Columns) + MaxNodes

\* a factory call allocates the node it returns
Built(node) ==
    /\ heap' = Append(heap, node)
    /\ heapBefore' = heap'
    /\ UNCHANGED <<out, fault, log, call>>

NewBinary ==
    /\ CanBuild
    /\ \E lhs \in Operands, rhs \in Operands, op \in BinaryOperators :
          \E add \in AdditionalParams(op) :
             Built(newBinaryOperatorExpression(Len(heap) + 1, lhs, rhs, op, add))
    /\ UNCHANGED <<conjVars, litVars>>

NewPrefix ==
    /\ CanBuild
    /\ \E e \in Operands, op \in PrefixOperators :
          Built(newPrefixOperatorExpression(Len(heap) + 1, e, op))
    /\ UNCHANGED <<conjVars, litVars>>

NewPostfix ==
    /\ CanBuild
    /\ \E e \in Operands, op \in PostfixOperators :
          Built(newPostfixOperatorExpression(Len(heap) + 1, e, op))
    /\ UNCHANGED <<conjVars, litVars>>

\* the result of a render into a fresh builder becomes the state
Rendered(op, root, statement, dialect, options, st) ==
    /\ out' = st.buf
    /\ fault' = st.fault
    /\ log' = st.log
    /\ call' = [op |-> op, root |-> root, statement |-> statement,
                dialect |-> dialect, options |-> options]
    /\ heapBefore' = heap
    /\ UNCHANGED heap

Serialize ==
    /\ Idle
    /\ \E statement \in StatementTypes, dialect \in Dialects,
          options \in {{}, {noWrap}} :
          Rendered("serialize", Top, statement, dialect, options,
                   serialize(heap, Top, statement, dialect, NewBuilder, options))
    /\ UNCHANGED <<conjVars, litVars>>

SerializeForProjection ==
    /\ Idle
    /\ \E statement \in ClauseStatementTypes, dialect \in Dialects :
          Rendered("projection", Top, statement, dialect, {},
                   serializeForProjection(heap, Top, statement, dialect, NewBuilder))
    /\ UNCHANGED <<conjVars, litVars>>

SerializeForGroupBy ==
    /\ Idle
    /\ \E statement \in ClauseStatementTypes, dialect \in Dialects :
          Rendered("groupBy", Top, statement, dialect, {},
                   serializeForGroupBy(heap, Top, statement, dialect, NewBuilder))
    /\ UNCHANGED <<conjVars, litVars>>

SerializeForOrderBy ==
    /\ Idle
    /\ \E statement \in ClauseStatementTypes, dialect \in Dialects :
          Rendered("orderBy", Top, statement, dialect, {},
                   serializeForOrderBy(heap, Top, statement, dialect, NewBuilder))
    /\ UNCHANGED <<conjVars, litVars>>

\* the render returned (or panicked) and its builder is dropped
Discard ==
    /\ ~Idle
    /\ out' = << >>
    /\ fault' = NoFault
    /\ log' = << >>
    /\ call' = NoCall
    /\ UNCHANGED <<heap, heapBefore, conjVars, litVars>>

(***************************************************************************)
(* package sqlbuilder: conjunctExpression.                                 *)
(***************************************************************************)
\* the connectives: conjunctExpression.conjunction
Conjunctions == {" AND ", " OR "}

\* what the buffer may hold when SerializeSql is called
PriorBuffers == {<< >>, <<"WHERE ">>}

\* a boolean operand that is no conjunction: it writes its text
BoolOperand(name) ==
    [kind |-> "operand", name |-> name, expressions |-> << >>, conjunction |-> ""]

\* the struct conjunctExpression
conjunctExpression(expressions, conjunction) ==
    [kind |-> "conjunct", name |-> "", expressions |-> expressions,
     conjunction |-> conjunction]

NoError == [kind |-> "none", msg |-> << >>, entry |-> << >>]

\* errors.Newf(format + "  Generated sql: %s", out.String()), returned by a
\* SerializeSql that was entered with buffer entry
Newf(st, kind, text, entry) ==
    IF st.err.kind # "none" THEN st
    ELSE [st EXCEPT !.err = [kind |-> kind,
                             msg |-> <<text, "  Generated sql: ">> \o st.buf,
                             entry |-> entry]]

\* out.Write / out.WriteByte; a returned error ends every caller
Write(st, chunk) ==
    IF st.err.kind # "none" THEN st
    ELSE [st EXCEPT !.buf = Append(@, chunk)]

RECURSIVE SerializeSql(_, _, _)

\* serializeClauses(clauses, separator, out), from clause i on
RECURSIVE serializeClausesFrom(_, _, _, _, _)
serializeClausesFrom(h, clauses, separator, st, i) ==
    IF i > Len(clauses) \/ st.err.kind # "none" THEN st
    ELSE LET s1 == IF i > 1 THEN Write(st, separator) ELSE st
         IN  serializeClausesFrom(h, clauses, separator,
                                  SerializeSql(h, clauses[i], s1), i + 1)

\* serializeClauses(clauses, separator, out)
serializeClauses(h, clauses, separator, st) ==
    IF Len(clauses) = 0
    THEN Newf(st, "EmptyClauses", "Empty clauses.", st.buf)
    ELSE serializeClausesFrom(h, clauses, separator, st, 1)

\* variant: a single operand is parenthesized too
conjunctSerializeSql_alwaysParens(h, id, st) ==
    LET conj == h[id]
    IN  IF Len(conj.expressions) = 0
        THEN Newf(st, "EmptyConjunction", "Empty conjunction.", st.buf)
        ELSE Write(serializeClauses(h, conj.expressions, conj.conjunction,
                                    Write(st, "(")), ")")

\* variant: the check for an empty conjunction is missing
conjunctSerializeSql_noCheck(h, id, st) ==
    LET conj == h[id]
        useParentheses == Len(conj.expressions) > 1
        s1 == IF useParentheses THEN Write(st, "(") ELSE st
        s2 == serializeClauses(h, conj.expressions, conj.conjunction, s1)
    IN  IF useParentheses THEN Write(s2, ")") ELSE s2

\* conjunctExpression.SerializeSql
conjunctSerializeSql(h, id, st) ==
    LET conj == h[id]
        clauses == conj.expressions
        useParentheses == Len(clauses) > 1
    IN  IF Len(conj.expressions) = 0
        THEN Newf(st, "EmptyConjunction", "Empty conjunction.", st.buf)
        ELSE LET s1 == IF useParentheses THEN Write(st, "(") ELSE st
                 s2 == serializeClauses(h, clauses, conj.conjunction, s1)
             IN  IF useParentheses THEN Write(s2, ")") ELSE s2

\* x.SerializeSql(out): dispatch on the dynamic type of x
SerializeSql(h, id, st) ==
    IF st.err.kind # "none" THEN st
    ELSE IF h[id].kind = "operand" THEN Write(st, h[id].name)
    ELSE conjunctSerializeSql(h, id, st)

\* number of conjunctions built over the operands
MaxConjuncts == 2

\* most operands of one conjunction
MaxOperands == 2

InitConjHeap == <<BoolOperand("a"), BoolOperand("b")>>

NoConjCall == [op |-> "none", root |-> 0, prior |-> << >>]

ConjInit ==
    /\ cheap = InitConjHeap
    /\ cbuf = << >>
    /\ cerr = NoError
    /\ ccall = NoConjCall

\* the sequences of at most n elements of S
SeqsUpTo(S, n) == UNION {[1..k -> S] : k \in 0..n}

\* an operand is one of the plain operands or the expression built so far
ConjOperands == (1..Len(InitConjHeap)) \cup {Len(cheap)}

\* And(...) / Or(...): a conjunctExpression over boolean expressions built before
NewConjunct ==
    /\ ccall = NoConjCall
    /\ Len(cheap) < Len(InitConjHeap) + MaxConjuncts
    /\ \E conjunction \in Conjunctions,
          expressions \in SeqsUpTo(ConjOperands, MaxOperands) :
          cheap' = Append(cheap, conjunctExpression(expressions, conjunction))
    /\ UNCHANGED <<cbuf, cerr, ccall, jetVars, litVars>>

\* SerializeSql of the expression built last, into a buffer holding prior
ConjSerializeSql ==
    /\ ccall = NoConjCall
    /\ \E prior \in PriorBuffers :
          LET st == SerializeSql(cheap, Len(cheap), [buf |-> prior, err |-> NoError])
          IN  /\ cbuf' = st.buf
              /\ cerr' = st.err
              /\ ccall' = [op |-> "SerializeSql", root |-> Len(cheap), prior |-> prior]
    /\ UNCHANGED <<cheap, jetVars, litVars>>

\* the call returned and its buffer is dropped
ConjDiscard ==
    /\ ccall # NoConjCall
    /\ cbuf' = << >>
    /\ cerr' = NoError
    /\ ccall' = NoConjCall
    /\ UNCHANGED <<cheap, jetVars, litVars>>

(***************************************************************************)
(* package postgres: the typed literal constructors.                       *)
(* An integer is a sign and a magnitude of four 16-bit limbs, the most     *)
(* significant first, so that the 64-bit host types keep their full range. *)
(***************************************************************************)
\* 2^n - 1 for 0 <= n <= 16
Ones(n) == 2^n - 1

Clamp(n) == IF n < 0 THEN 0 ELSE IF n > 16 THEN 16 ELSE n

\* the magnitude 2^bits - 1
AllOnes(bits) == [j \in 1..4 |-> Ones(Clamp(bits - 16 * (4 - j)))]

\* the magnitude 2^bit
OneBit(bit) ==
    [j \in 1..4 |-> IF bit - 16 * (4 - j) \in 0..15 THEN 2^(bit - 16 * (4 - j)) ELSE 0]

\* the magnitude of a small number
Small(n) == <<0, 0, 0, n>>

Integer(neg, mag) == [neg |-> neg, mag |-> mag]

\* m1 <= m2 on magnitudes
RECURSIVE MagLeqFrom(_, _, _)
MagLeqFrom(m1, m2, j) ==
    IF j > 4 THEN TRUE
    ELSE IF m1[j] # m2[j] THEN m1[j] < m2[j]
    ELSE MagLeqFrom(m1, m2, j + 1)

MagLeq(m1, m2) == MagLeqFrom(m1, m2, 1)

\* the values of a host integer type that the constructors are tried on:
\* the ends of its range and values between them
HostIntegers(bits, signed) ==
    IF signed
    THEN {Integer(TRUE, OneBit(bits - 1)), Integer(TRUE, Small(42)),
          Integer(TRUE, Small(1)), Integer(FALSE, Small(0)), Integer(FALSE, Small(42)),
          Integer(FALSE, AllOnes(bits - 1))}
    ELSE {Integer(FALSE, Small(0)), Integer(FALSE, Small(42)),
          Integer(FALSE, AllOnes(bits - 1)), Integer(FALSE, OneBit(bits - 1)),
          Integer(FALSE, AllOnes(bits))}

\* whether v lies in the range of a signed SQL integer type of that width
InSignedRange(v, bits) ==
    IF v.neg THEN MagLeq(v.mag, OneBit(bits - 1))
    ELSE MagLeq(v.mag, AllOnes(bits - 1))

\* the other arguments the constructors are tried on
Bools == {TRUE, FALSE}
Floats == {"0.0", "1.5", "-2.25", "NaN"}
Decimals == {"0", "1.50", "-2.25", "1e100"}
Strings == {"", "x", "it's", "42"}
UUIDs == {"00000000-0000-0000-0000-000000000000", "b68dbff4-a87d-11e9-a7f2-98ded00c39c6",
          "b68dbff6-a87d-11e9-a7f2-98ded00c39c8"}
Dates == {<<2000, 1, 1>>, <<2024, 2, 29>>, <<1, 12, 31>>, <<9999, 12, 31>>}
Times == {<<0, 0, 0>>, <<23, 59, 59>>, <<12, 30, 0>>, <<23, 59, 59, 999>>}
Timezs == {<<0, 0, 0, 0, "UTC">>, <<23, 59, 59, 999, "+01">>, <<12, 30, 0, 0, "-08">>}
Timestamps == {<<2000, 1, 1, 0, 0, 0>>, <<2024, 2, 29, 23, 59, 59>>,
               <<2024, 2, 29, 23, 59, 59, 999>>}
Timestampzs == {<<2000, 1, 1, 0, 0, 0, 0, "UTC">>, <<2024, 2, 29, 23, 59, 59, 999, "+01">>,
                <<1, 12, 31, 12, 30, 0, 0, "-08">>}
Instants == {"1970-01-01T00:00:00Z", "2024-02-29T23:59:59.999+01:00", "9999-12-31T23:59:59Z",
             "0001-12-31T12:30:00-08:00"}
\* interface{} values: a dynamic type and a value
ByteaValues == {[type |-> "string", value |-> "x"], [type |-> "[]byte", value |-> "x"],
                [type |-> "int", value |-> "42"], [type |-> "nil", value |-> ""]}

\* the literal node a constructor of package jet returns for a raw value
Literal(constructor, value) ==
    [kind |-> "literal", castType |-> "", constructor |-> constructor, value |-> value]

\* CAST(expression).AS_<type>()
CAST(expression, type) ==
    [kind |-> "cast", castType |-> type, constructor |-> expression.constructor,
     value |-> expression.value]

\* a panic of a constructor
LiteralPanic(msg) ==
    [kind |-> "panic", castType |-> "", constructor |-> "", value |-> msg]

\* variant: Int8 returns the literal as it is
Int8_bare(value) == Literal("jet.Int8", value)

\* Bool
Bool(value) == CAST(Literal("jet.Bool", value), "BOOL")

\* Int8
Int8(value) == CAST(Literal("jet.Int8", value), "SMALLINT")

\* Int16
Int16(value) == CAST(Literal("jet.Int16", value), "SMALLINT")

\* Int32
Int32(value) == CAST(Literal("jet.Int32", value), "INTEGER")

\* Int64
Int64(value) == CAST(Literal("jet.Int", value), "BIGINT")

\* Uint8
Uint8(value) == CAST(Literal("jet.Uint8", value), "SMALLINT")

\* Uint16
Uint16(value) == CAST(Literal("jet.Uint16", value), "INTEGER")

\* Uint32
Uint32(value) == CAST(Literal("jet.Uint32", value), "BIGINT")

\* Uint64
Uint64(value) == CAST(Literal("jet.Uint64", value), "BIGINT")

\* Date
Date(value) == CAST(Literal("jet.Date", value), "DATE")

\* DateT
DateT(value) == CAST(Literal("jet.DateT", value), "DATE")

\* Time
Time(value) == CAST(Literal("jet.Time", value), "TIME")

\* TimeT
TimeT(value) == CAST(Literal("jet.TimeT", value), "TIME")

\* Timez
Timez(value) == CAST(Literal("jet.Timez", value), "TIMEZ")

\* TimezT
TimezT(value) == CAST(Literal("jet.TimezT", value), "TIMEZ")

\* Timestamp
Timestamp(value) == CAST(Literal("jet.Timestamp", value), "TIMESTAMP")

\* TimestampT
TimestampT(value) == CAST(Literal("jet.TimestampT", value), "TIMESTAMP")

\* Timestampz
Timestampz(value) == CAST(Literal("jet.Timestampz", value), "TIMESTAMPZ")

\* TimestampzT
TimestampzT(value) == CAST(Literal("jet.TimestampzT", value), "TIMESTAMPZ")

\* Int = jet.Int
Int_(value) == Literal("jet.Int", value)

\* Float = jet.Float
Float(value) == Literal("jet.Float", value)

\* Decimal = jet.Decimal
Decimal(value) == Literal("jet.Decimal", value)

\* String = jet.String
String(value) == Literal("jet.String", value)

\* UUID = jet.UUID
UUID(value) == Literal("jet.UUID", value)

\* Bytea
Bytea(value) ==
    IF value.type \in {"string", "[]byte"}
    THEN CAST(Literal("jet.Literal", value), "BYTEA")
    ELSE LiteralPanic("Bytea parameter value has to be of the type string or []byte")

NoLit == [ctor |-> "none", arg |-> "", result |-> LiteralPanic("")]

LitIdle == lit = NoLit

\* a call of a constructor: its name, its argument and what it returned
Constructed(ctor, arg, result) ==
    lit' = [ctor |-> ctor, arg |-> arg, result |-> result]

CallBool ==
    /\ \E value \in Bools : Constructed("Bool", value, Bool(value))
    /\ UNCHANGED <<jetVars, conjVars>>

CallInt ==
    /\ \E value \in HostIntegers(64, TRUE) : Constructed("Int", value, Int_(value))
    /\ UNCHANGED <<jetVars, conjVars>>

CallInt8 ==
    /\ \E value \in HostIntegers(8, TRUE) : Constructed("Int8", value, Int8(value))
    /\ UNCHANGED <<jetVars, conjVars>>

CallInt16 ==
    /\ \E value \in HostIntegers(16, TRUE) : Constructed("Int16", value, Int16(value))
    /\ UNCHANGED <<jetVars, conjVars>>

CallInt32 ==
    /\ \E value \in HostIntegers(32, TRUE) : Constructed("Int32", value, Int32(value))
    /\ UNCHANGED <<jetVars, conjVars>>

CallInt64 ==
    /\ \E value \in HostIntegers(64, TRUE) : Constructed("Int64", value, Int64(value))
    /\ UNCHANGED <<jetVars, conjVars>>

CallUint8 ==
    /\ \E value \in HostIntegers(8, FALSE) : Constructed("Uint8", value, Uint8(value))
    /\ UNCHANGED <<jetVars, conjVars>>

CallUint16 ==
    /\ \E value \in HostIntegers(16, FALSE) : Constructed("Uint16", value, Uint16(value))
    /\ UNCHANGED <<jetVars, conjVars>>

CallUint32 ==
    /\ \E value \in HostIntegers(32, FALSE) : Constructed("Uint32", value, Uint32(value))
    /\ UNCHANGED <<jetVars, conjVars>>

CallUint64 ==
    /\ \E value \in HostIntegers(64, FALSE) : Constructed("Uint64", value, Uint64(value))
    /\ UNCHANGED <<jetVars, conjVars>>

CallFloat ==
    /\ \E value \in Floats : Constructed("Float", value, Float(value))
    /\ UNCHANGED <<jetVars, conjVars>>

CallDecimal ==
    /\ \E value \in Decimals : Constructed("Decimal", value, Decimal(value))
    /\ UNCHANGED <<jetVars, conjVars>>

CallString ==
    /\ \E value \in Strings : Constructed("String", value, String(value))
    /\ UNCHANGED <<jetVars, conjVars>>

CallUUID ==
    /\ \E value \in UUIDs : Constructed("UUID", value, UUID(value))
    /\ UNCHANGED <<jetVars, conjVars>>

CallBytea ==
    /\ \E value \in ByteaValues : Constructed("Bytea", value, Bytea(value))
    /\ UNCHANGED <<jetVars, conjVars>>

CallDate ==
    /\ \E value \in Dates : Constructed("Date", value, Date(value))
    /\ UNCHANGED <<jetVars, conjVars>>

CallDateT ==
    /\ \E value \in Instants : Constructed("DateT", value, DateT(value))
    /\ UNCHANGED <<jetVars, conjVars>>

CallTime ==
    /\ \E value \in Times : Constructed("Time", value, Time(value))
    /\ UNCHANGED <<jetVars, conjVars>>

CallTimeT ==
    /\ \E value \in Instants : Constructed("TimeT", value, TimeT(value))
    /\ UNCHANGED <<jetVars, conjVars>>

CallTimez ==
    /\ \E value \in Timezs : Constructed("Timez", value, Timez(value))
    /\ UNCHANGED <<jetVars, conjVars>>

CallTimezT ==
    /\ \E value \in Instants : Constructed("TimezT", value, TimezT(value))
    /\ UNCHANGED <<jetVars, conjVars>>

CallTimestamp ==
    /\ \E value \in Timestamps : Constructed("Timestamp", value, Timestamp(value))
    /\ UNCHANGED <<jetVars, conjVars>>

CallTimestampT ==
    /\ \E value \in Instants : Constructed("TimestampT", value, TimestampT(value))
    /\ UNCHANGED <<jetVars, conjVars>>

CallTimestampz ==
    /\ \E value \in Timestampzs : Constructed("Timestampz", value, Timestampz(value))
    /\ UNCHANGED <<jetVars, conjVars>>

CallTimestampzT ==
    /\ \E value \in Instants : Constructed("TimestampzT", value, TimestampzT(value))
    /\ UNCHANGED <<jetVars, conjVars>>

Init == JetInit /\ ConjInit /\ LitIdle

Next ==
    \/ NewBinary
    \/ NewPrefix
    \/ NewPostfix
    \/ Serialize
    \/ SerializeForProjection
    \/ SerializeForGroupBy
    \/ SerializeForOrderBy
    \/ Discard

Spec == Init /\ [][Next]_vars

ConjNext ==
    \/ NewConjunct
    \/ ConjSerializeSql
    \/ ConjDiscard

SpecConj == Init /\ [][ConjNext]_vars

LitNext ==
    \/ CallBool
    \/ CallInt
    \/ CallInt8
    \/ CallInt16
    \/ CallInt32
    \/ CallInt64
    \/ CallUint8
    \/ CallUint16
    \/ CallUint32
    \/ CallUint64
    \/ CallFloat
    \/ CallDecimal
    \/ CallString
    \/ CallUUID
    \/ CallBytea
    \/ CallDate
    \/ CallDateT
    \/ CallTime
    \/ CallTimeT
    \/ CallTimez
    \/ CallTimezT
    \/ CallTimestamp
    \/ CallTimestampT
    \/ CallTimestampz
    \/ CallTimestampzT

SpecLit == Init /\ [][LitNext]_vars

(***************************************************************************)
(* package jet: the properties.                                            *)
(***************************************************************************)
IsRender == call.op # "none"

Root == heap[call.root]

Adapters == {"projection", "groupBy", "orderBy"}

\* the buffer of x rendered alone, in default (wrapping) mode, under the
\* dialect and statement of the render in progress
Alone(x) == serialize(heap, x, call.statement, call.dialect, NewBuilder, {}).buf

\* the chunks node id wrote itself
Own(buf, id) == SelectSeq(buf, LAMBDA t : t.by = id)

Parens(body) == <<"(">> \o body \o <<")">>

\* whether an operator node lacks an operand it requires
MissingOwnOperand(n) ==
    \/ n.kind = "binary" /\ (n.lhs = Nil \/ n.rhs = Nil)
    \/ n.kind \in {"prefix", "postfix"} /\ n.expression = Nil

\* whether the tree under x holds a binary node with operator op
RECURSIVE Carries(_, _)
Carries(x, op) ==
    IF x = Nil THEN FALSE
    ELSE LET n == heap[x]
         IN  CASE n.kind = "column" -> FALSE
               [] n.kind = "binary" ->
                    n.operator = op \/ Carries(n.lhs, op) \/ Carries(n.rhs, op)
               [] OTHER -> Carries(n.expression, op)

\* a completed direct render of a binary node whose operator has no override
C1_Case ==
    /\ call.op = "serialize"
    /\ Root.kind = "binary"
    /\ Root.lhs # Nil /\ Root.rhs # Nil
    /\ OperatorSerializeOverride(call.dialect, Root.operator) = NoOverride
    /\ fault.kind = "none"

\* C1: a binary node with both operands and no override for its operator
\* renders as render(lhs) + operator + render(rhs), the operands rendered in
\* default (wrapping) mode whatever options the node got, and the node
\* encloses this in one "(" ... ")" exactly when noWrap was not passed.
C1_BinaryGeneric ==
    C1_Case =>
        LET body == Text(Alone(Root.lhs)) \o <<Root.operator>> \o Text(Alone(Root.rhs))
        IN  Text(out) = IF noWrap \in call.options THEN body ELSE Parens(body)

\* a noWrap render of a binary node whose lhs is itself a binary node
C1_Witness ==
    /\ C1_Case
    /\ noWrap \in call.options
    /\ heap[Root.lhs].kind = "binary"
    /\ call.dialect = "custom"

\* the render of the same call under the dialect without overrides
UnderGeneric ==
    IF call.op = "serialize"
    THEN serialize(heap, call.root, call.statement, "generic", NewBuilder, call.options)
    ELSE serialize(heap, call.root, call.statement, "generic", NewBuilder, {noWrap})

Names(msg, x) == \E i \in 1..Len(msg) : msg[i] = x

\* C3: the factories build a node whatever operands they get (every node of
\* the heap is complete and its own Parent); rendering a node that lacks a
\* required operand ends in a MissingOperand fault of that node whose message
\* names the node's operator, whichever side is absent and whatever the
\* options and the dialect.
C3_MissingOperand ==
    /\ \A i \in 1..Len(heap) : heap[i].Parent = i
    /\ (IsRender /\ MissingOwnOperand(Root)) =>
           /\ fault.kind = "MissingOperand"
           /\ fault.node = call.root
           /\ fault.operator = Root.operator
           /\ Names(fault.msg, Root.operator)
    /\ fault.kind # "none" =>
           /\ fault.kind = "MissingOperand"
           /\ MissingOwnOperand(heap[fault.node])
           /\ Names(fault.msg, heap[fault.node].operator)

\* a "=" node without rhs, rendered unwrapped under the overriding dialect
C3_Witness ==
    /\ IsRender
    /\ Root.kind = "binary" /\ Root.operator = "="
    /\ Root.lhs # Nil /\ Root.rhs = Nil
    /\ call.dialect = "custom"
    /\ call.op = "serialize" /\ noWrap \in call.options
    /\ fault.kind = "MissingOperand"

\* C7 as stated: a node rendered in a clause role adds no parentheses of its own
C7_Original ==
    (call.op \in Adapters /\ Root.kind \in {"binary", "prefix", "postfix"}
        /\ fault.kind = "none") =>
        \A i \in 1..Len(out) : out[i].by = call.root => out[i].s \notin {"(", ")"}

\* C7 (amended): the clause roles call serialize of the node's Parent, which is
\* the node itself, with noWrap; a binary or postfix node then adds no
\* parentheses of its own, while a prefix node ignores the option and still
\* encloses its text in "(" and ")".
C7_ClauseRoles ==
    (call.op \in Adapters /\ Root.kind \in {"binary", "prefix", "postfix"}) =>
        /\ Root.Parent = call.root
        /\ out = serialize(heap, call.root, call.statement, call.dialect,
                           NewBuilder, {noWrap}).buf
        /\ (fault.kind = "none" /\ Root.kind \in {"binary", "postfix"}) =>
               \A i \in 1..Len(out) : out[i].by = call.root => out[i].s \notin {"(", ")"}
        /\ (fault.kind = "none" /\ Root.kind = "prefix") =>
               /\ out[1] = [s |-> "(", by |-> call.root]
               /\ out[Len(out)] = [s |-> ")", by |-> call.root]

\* a binary node over a binary node rendered as a GROUP BY term
C7_Witness ==
    /\ call.op = "groupBy"
    /\ Root.kind = "binary"
    /\ fault.kind = "none"
    /\ heap[Root.lhs].kind = "binary"
    /\ out[1].s = "("

\* a direct render of a binary node with both operands whose operator the
\* dialect overrides
C8_Case ==
    /\ call.op = "serialize"
    /\ Root.kind = "binary"
    /\ ~MissingOwnOperand(Root)
    /\ OperatorSerializeOverride(call.dialect, Root.operator) # NoOverride

\* the calls into the dialect made by the rendered node itself
RootEvents == SelectSeq(log, LAMBDA e : e.node = call.root)

\* C8: with an override for its operator the node looks the override up once,
\* by its operator, calls it once with (lhs, rhs, additionalParam) and calls
\* the function it returns once with the statement and options the node got;
\* the node writes nothing but its "(" and ")" (nothing under noWrap), and
\* the text between them is what the override's function writes.
C8_Delegation ==
    C8_Case =>
        /\ RootEvents =
             << Event("lookup", call.root, Root.operator, Root, call.statement, {}),
                Event("override", call.root,
                      OperatorSerializeOverride(call.dialect, Root.operator),
                      Root, call.statement, {}),
                Event("func", call.root,
                      OperatorSerializeOverride(call.dialect, Root.operator),
                      Root, call.statement, call.options) >>
        /\ fault.kind = "none" =>
             LET inner == overrideFunc(heap, Root.lhs, Root.rhs, Root.additionalParam,
                                       call.statement, call.dialect, NewBuilder,
                                       call.options).buf
             IN  /\ Text(out) = IF noWrap \in call.options THEN Text(inner)
                                ELSE Parens(Text(inner))
                 /\ Text(Own(out, call.root)) =
                        IF noWrap \in call.options THEN << >> ELSE <<"(", ")">>

\* an unwrapped render through the override, the extra operand present
C8_Witness ==
    /\ C8_Case
    /\ call.statement = "UPDATE"
    /\ noWrap \in call.options
    /\ Root.additionalParam # Nil
    /\ fault.kind = "none"
    /\ Len(out) > 0

\* C9 as stated: at the fault the buffer is what it was when the failing
\* node's serialize was entered
C9_Original ==
    fault.kind = "MissingOperand" => out = fault.entry

\* C9 (amended): a binary or postfix node that lacks an operand raises the
\* fault before it writes; a prefix node has by then written "(" and its
\* operator after what the buffer held when its serialize was entered.
C9_FaultBeforeWrite ==
    fault.kind = "MissingOperand" =>
        LET n == heap[fault.node]
        IN  IF n.kind = "prefix"
            THEN out = fault.entry \o << [s |-> "(", by |-> fault.node],
                                         [s |-> n.operator, by |-> fault.node] >>
            ELSE out = fault.entry

\* a postfix node without operand fails inside a wrapped binary node
C9_Witness ==
    /\ fault.kind = "MissingOperand"
    /\ fault.node # call.root
    /\ heap[fault.node].kind = "postfix"
    /\ Len(out) > 0

(***************************************************************************)
(* package sqlbuilder: the properties.                                     *)
(***************************************************************************)
ConjRoot == cheap[ccall.root]

\* the buffer of x rendered alone into an empty buffer
ConjAlone(x) == SerializeSql(cheap, x, [buf |-> << >>, err |-> NoError]).buf

\* the renderings of the operands es, from operand i on, joined by sep
RECURSIVE Joined(_, _, _)
Joined(es, sep, i) ==
    IF i > Len(es) THEN << >>
    ELSE (IF i > 1 THEN <<sep>> ELSE << >>) \o ConjAlone(es[i]) \o Joined(es, sep, i + 1)

\* a completed SerializeSql of a conjunction of at least one operand
C4_Case ==
    /\ ccall.op = "SerializeSql"
    /\ ConjRoot.kind = "conjunct"
    /\ Len(ConjRoot.expressions) >= 1
    /\ cerr.kind = "none"

\* C4: a conjunction of n >= 1 operands appends the operands' renderings in
\* list order joined by its connective, enclosed in one "(" ... ")" exactly
\* when n > 1; one operand renders as the operand alone; a nested conjunction
\* keeps its own parentheses (no flattening).
C4_Conjunction ==
    C4_Case =>
        LET joined == Joined(ConjRoot.expressions, ConjRoot.conjunction, 1)
        IN  /\ cbuf = ccall.prior \o
                      (IF Len(ConjRoot.expressions) > 1 THEN Parens(joined) ELSE joined)
            /\ Len(ConjRoot.expressions) = 1 =>
                   cbuf = ccall.prior \o ConjAlone(ConjRoot.expressions[1])

\* AND over (an AND of two operands, an operand): the nesting shows
C4_Witness ==
    /\ C4_Case
    /\ Len(ConjRoot.expressions) = 2
    /\ ConjRoot.conjunction = " AND "
    /\ cheap[ConjRoot.expressions[1]] = conjunctExpression(<<1, 2>>, " AND ")
    /\ cbuf = <<"(", "(", "a", " AND ", "b", ")", " AND ", "b", ")">>

\* C5: SerializeSql of a conjunction without operands returns the
\* EmptyConjunction error, for AND and for OR, with the buffer as it was when
\* that conjunction was entered.
C5_EmptyConjunction ==
    /\ (ccall.op = "SerializeSql" /\ ConjRoot.kind = "conjunct"
           /\ Len(ConjRoot.expressions) = 0) =>
           /\ cerr.kind = "EmptyConjunction"
           /\ cbuf = ccall.prior
    /\ cerr.kind # "none" =>
           /\ cerr.kind = "EmptyConjunction"
           /\ cbuf = cerr.entry

\* an empty OR rendered into a buffer that holds text
C5_Witness ==
    /\ ccall.op = "SerializeSql"
    /\ ConjRoot = conjunctExpression(<< >>, " OR ")
    /\ ccall.prior # << >>
    /\ cerr.kind = "EmptyConjunction"

(***************************************************************************)
(* package postgres: the properties.                                       *)
(***************************************************************************)
\* the constructors that are the constructor of package jet itself
Aliases == {"Int", "Float", "Decimal", "String", "UUID"}

\* the SQL type each casting constructor casts to
CanonicalType(ctor) ==
    CASE ctor = "Bool" -> "BOOL"
      [] ctor \in {"Int8", "Int16", "Uint8"} -> "SMALLINT"
      [] ctor \in {"Int32", "Uint16"} -> "INTEGER"
      [] ctor \in {"Int64", "Uint32", "Uint64"} -> "BIGINT"
      [] ctor = "Bytea" -> "BYTEA"
      [] ctor \in {"Date", "DateT"} -> "DATE"
      [] ctor \in {"Time", "TimeT"} -> "TIME"
      [] ctor \in {"Timez", "TimezT"} -> "TIMEZ"
      [] ctor \in {"Timestamp", "TimestampT"} -> "TIMESTAMP"
      [] ctor \in {"Timestampz", "TimestampzT"} -> "TIMESTAMPZ"

\* C6 as stated: no constructor returns a literal without a cast
C6_Original ==
    (lit.ctor # "none" /\ lit.result.kind # "panic") => lit.result.kind = "cast"

\* C6 (amended): every constructor but Int, Float, Decimal, String and UUID
\* wraps its argument in a literal and casts it to the SQL type of its
\* category (Bytea when its argument is a string or a []byte, and it panics
\* otherwise); those five are the constructors of package jet and return the
\* literal without a cast.
C6_Constructors ==
    lit.ctor # "none" =>
        /\ lit.result.kind = "panic" <=>
               (lit.ctor = "Bytea" /\ lit.arg.type \notin {"string", "[]byte"})
        /\ lit.result.kind # "panic" =>
               /\ lit.result.value = lit.arg
               /\ IF lit.ctor \in Aliases
                  THEN lit.result.kind = "literal"
                  ELSE /\ lit.result.kind = "cast"
                       /\ lit.result.castType = CanonicalType(lit.ctor)

\* Int8(42) returned a cast to SMALLINT
C6_Witness ==
    /\ lit.ctor = "Int8"
    /\ lit.arg = Integer(FALSE, Small(42))
    /\ lit.result.kind = "cast"
    /\ lit.result.castType = "SMALLINT"

\* the width of the signed SQL integer types
SqlBits(type) ==
    CASE type = "SMALLINT" -> 16
      [] type = "INTEGER" -> 32
      [] type = "BIGINT" -> 64

\* C10: every argument of a casting integer constructor lies in the signed
\* range of the SQL type the constructor casts it to.
C10_Original ==
    lit.ctor \in {"Int8", "Int16", "Int32", "Int64", "Uint8", "Uint16", "Uint32", "Uint64"} =>
        InSignedRange(lit.arg, SqlBits(lit.result.castType))

====
